---------------------------- MODULE Spec2Model ----------------------------
(***************************************************************************)
(* vim-sort-folds: reordering of the folds of a vim buffer.                *)
(*                                                                         *)
(* The repository holds three generations of the same command:             *)
(*   python3/sort_folds/__init__.py   (0.3.0)  sort_folds                   *)
(*   python3/SortFolds/__init__.py    (0.1.1)  sort_folds  (SortFolds_...)  *)
(*   pythonx/SortFolds/__init__.py             sort_folds  (pythonx_...)    *)
(* plus the helper modules cursor.py, fold.py and vim_fold.py.              *)
(*                                                                         *)
(* The host (vim) is modelled as far as the code observes it:              *)
(*   - the buffer is a sequence of lines, a line a sequence of character   *)
(*     codes; folds are those of 'foldmethod=marker': the character "{"    *)
(*     (123) stands for one fold-open marker, "}" (125) for one fold-close *)
(*     marker, so the folds travel with the lines when lines are moved;    *)
(*   - every fold is open or closed; zj, ]z, [z move the cursor as vim's   *)
(*     foldMoveTo does; zo, zC, zX, zx, zv change only the open/closed     *)
(*     state;                                                               *)
(*   - vim.current.range is a sequence of lines with 0-based attributes     *)
(*     start and end (end is the index of the last line);                   *)
(*   - any vim.command may raise vim.error: the failAt-th command of an    *)
(*     invocation raises (failAt = 0: none does).                          *)
(***************************************************************************)
EXTENDS Integers, Sequences, FiniteSets, TLC

\* ------------------------------------------------------------------ bounds
\* Spec: buffers of at most MaxLines lines, folds nested MaxDepth deep.
MaxLines == 3
MaxDepth == 2
\* SpecSort: buffers of at most SortLines lines, folds nested SortDepth deep.
SortLines == 4
SortDepth == 1
\* SpecSort: the folds of the two-fold buffers have at most ScenarioLen lines.
ScenarioLen == 3
\* The key index of an invocation is one of 0..MaxKey.
MaxKey == 1
\* The cursor column on entry is one of 0..MaxCol.
MaxCol == 2
\* The vim.command call that raises is one of 1..MaxFailAt (0: none).
MaxFailAt == 3
\* SpecWalk: buffers of at most WalkLines lines, folds nested WalkDepth deep.
WalkLines == 4
WalkDepth == 2
\* SpecFold: buffers of at most FoldBufLines lines, a fold's line numbers up
\* to FoldBufLines + 1 and an index into it one of -MaxIndex..MaxIndex.
FoldBufLines == 3
MaxIndex == 4
\* SpecTyped: buffers of at most TypedLines lines, folds nested TypedDepth deep.
TypedLines == 3
TypedDepth == 1

\* ----------------------------------------------------------------- strings
OpenMark == 123
CloseMark == 125

\* The letters a line's text is drawn from: "B", "a", "b".
Alphabet == {66, 97, 98}

Min(S) == CHOOSE x \in S : \A y \in S : x <= y

\* str.lower() on one character code (ASCII).
LowerChar(c) == IF c >= 65 /\ c <= 90 THEN c + 32 ELSE c

\* str.lower()
lower(s) == [i \in 1..Len(s) |-> LowerChar(s[i])]

\* Python's s < t on str: lexicographic on the code points.
StrLess(s, t) ==
    LET m == IF Len(s) < Len(t) THEN Len(s) ELSE Len(t)
        D == {i \in 1..m : s[i] # t[i]}
    IN  IF D = {} THEN Len(s) < Len(t) ELSE s[Min(D)] < t[Min(D)]

StrLeq(s, t) == ~StrLess(t, s)

\* buf[a:b] of Python, a and b 0-based, clamped as Python clamps a slice.
Clamp(i, n) == IF i < 0 THEN 0 ELSE IF i > n THEN n ELSE i
Slice(buf, a, b) ==
    LET lo == Clamp(a, Len(buf))
        hi == Clamp(b, Len(buf))
    IN  IF hi <= lo THEN << >> ELSE SubSeq(buf, lo + 1, hi)

\* buf[a:b] = lines of Python.
SliceAssign(buf, a, b, lines) ==
    LET lo == Clamp(a, Len(buf))
        hi0 == Clamp(b, Len(buf))
        hi == IF hi0 < lo THEN lo ELSE hi0
    IN  SubSeq(buf, 1, lo) \o lines \o SubSeq(buf, hi + 1, Len(buf))

\* ------------------------------------------------------- host: the folds
Count(line, c) == Cardinality({i \in DOMAIN line : line[i] = c})
Opens(line) == Count(line, OpenMark)
Closes(line) == Count(line, CloseMark)

\* The fold level that holds after line j (0 before the first line): every
\* open marker raises it, every close marker lowers it, never below 0.
LevelAfter(buf) ==
    LET f[j \in 0..Len(buf)] ==
            IF j = 0 THEN 0
            ELSE LET v == f[j - 1] + Opens(buf[j]) - Closes(buf[j])
                 IN  IF v < 0 THEN 0 ELSE v
    IN  f

\* foldlevel(lnum), lnum 1-based: the deepest fold holding the line.
FoldLevel(buf, lnum) ==
    IF lnum \in 1..Len(buf)
    THEN LevelAfter(buf)[lnum - 1] + Opens(buf[lnum])
    ELSE 0

\* The folds of the buffer: a fold of depth d opened on line top ends on the
\* first line after which the level is below d, or on the last line.
HostFolds(buf) ==
    LET aft == LevelAfter(buf)
        EndOf(top, d) ==
            LET S == {j \in top..Len(buf) : aft[j] < d}
            IN  IF S = {} THEN Len(buf) ELSE Min(S)
    IN  UNION {{[top |-> t, bot |-> EndOf(t, d), depth |-> d] :
                  d \in (aft[t - 1] + 1)..(aft[t - 1] + Opens(buf[t]))} :
               t \in 1..Len(buf)}

\* The folds holding line c, and of them the closed ones.
FoldsAt(F, c) == {f \in F : f.top <= c /\ c <= f.bot}

\* One array of vim's fold tree: the folds of depth d inside fold par
\* (par = NoFold: the top-level array).
NoFold == [top |-> 0, bot |-> 0, depth |-> 0]
Gap(F, d, par) ==
    {f \in F : /\ f.depth = d
               /\ (par = NoFold \/ (par.top <= f.top /\ f.bot <= par.bot))}

\* foldMoveTo(updown = TRUE, dir = FORWARD), the motion zj: walk down the
\* fold tree through the open folds holding line c; in every array the start
\* of the fold following the one that holds c (or following c) is a
\* candidate, and the deepest candidate is taken. Returns the line reached
\* (c itself: the motion failed).
RECURSIVE ZjFrom(_, _, _, _, _, _)
ZjFrom(F, closed, c, d, par, found) ==
    LET G == Gap(F, d, par)
        In == {f \in G : f.top <= c /\ c <= f.bot}
        Below == {f.top : f \in {g \in G : g.top > c}}
    IN  IF G = {} THEN found
        ELSE IF In # {}
        THEN LET f == CHOOSE x \in In : TRUE
                 Nxt == {g.top : g \in {x \in G : x.top > f.bot}}
                 found2 == IF Nxt # {} THEN Min(Nxt) ELSE found
             IN  IF f \in closed THEN found2
                 ELSE ZjFrom(F, closed, c, d + 1, f, found2)
        ELSE IF Below = {} THEN found ELSE Min(Below)

\* foldMoveTo(updown = FALSE), the motions ]z (toEnd) and [z: the end (start)
\* of the deepest open fold holding c that is not c itself; a closed fold
\* stops the walk.
RECURSIVE BracketFrom(_, _, _, _, _, _, _)
BracketFrom(F, closed, c, d, par, found, toEnd) ==
    LET In == {f \in Gap(F, d, par) : f.top <= c /\ c <= f.bot}
    IN  IF In = {} THEN found
        ELSE LET f == CHOOSE x \in In : TRUE
                 found2 == IF toEnd
                           THEN (IF f.bot > c THEN f.bot ELSE found)
                           ELSE (IF f.top < c THEN f.top ELSE found)
             IN  IF f \in closed THEN found
                 ELSE BracketFrom(F, closed, c, d + 1, f, found2, toEnd)

\* A fold motion leaves the cursor where it is when it fails and puts it in
\* column 0 of the line reached when it moves.
MovedTo(cur, line) ==
    IF line = cur.line THEN cur ELSE [line |-> line, col |-> 0]

\* zo: open the outermost closed fold holding the cursor line.
OpenOne(F, closed, c) ==
    LET C == FoldsAt(F, c) \cap closed
    IN  IF C = {} THEN closed
        ELSE closed \ {CHOOSE f \in C : \A g \in C : f.depth <= g.depth}

\* ---------------------------------------------------- host: vim.command
\* The host as one invocation sees it: the buffer, the closed folds, the
\* cursor, the number of vim.command calls made so far (n), the call that
\* raises (failAt), the exception in flight (exc) and the record of every
\* cursor-restoring scope that was left (scopes); folds and lvl are the
\* folds and the fold levels of buf.
Host(buf, closedFolds, cur, failAt) ==
    [buf |-> buf, folds |-> HostFolds(buf),
     lvl |-> [i \in 1..Len(buf) |-> FoldLevel(buf, i)],
     closed |-> closedFolds, cur |-> cur, n |-> 0,
     failAt |-> failAt, exc |-> "none", scopes |-> << >>]

\* One normal-mode command on the host state.
NormalOne(h, tok) ==
    LET F == h.folds
        c == h.cur.line
    IN  CASE tok = "zj" ->
               [h EXCEPT !.cur = MovedTo(@, ZjFrom(F, h.closed, c, 1, NoFold, c))]
          [] tok = "]z" ->
               [h EXCEPT !.cur =
                   MovedTo(@, BracketFrom(F, h.closed, c, 1, NoFold, c, TRUE))]
          [] tok = "[z" ->
               [h EXCEPT !.cur =
                   MovedTo(@, BracketFrom(F, h.closed, c, 1, NoFold, c, FALSE))]
          [] tok = "zo" -> [h EXCEPT !.closed = OpenOne(F, @, c)]
          [] tok = "zC" -> [h EXCEPT !.closed = @ \cup FoldsAt(F, c)]
          [] tok = "zX" -> [h EXCEPT !.closed = F]
          [] tok = "zv" -> [h EXCEPT !.closed = @ \ FoldsAt(F, c)]
          [] tok = "zx" -> [h EXCEPT !.closed = F \ FoldsAt(F, c)]
          [] OTHER -> h

RECURSIVE NormalAll(_, _)
NormalAll(h, toks) ==
    IF toks = << >> THEN h ELSE NormalAll(NormalOne(h, Head(toks)), Tail(toks))

\* vim.command('normal! ...'): the commands run in order; the failAt-th call
\* of the invocation raises vim.error instead.
vim_command(h, toks) ==
    IF h.exc # "none" THEN h
    ELSE IF h.n + 1 = h.failAt
    THEN [h EXCEPT !.n = @ + 1, !.exc = "vim.error"]
    ELSE NormalAll([h EXCEPT !.n = @ + 1], toks)

\* Python's None, where a line number (>= 1) is expected.
None == 0
NoMotion == << >>

\* ------------------------------------------------------- Python helpers
\* Statements in sequence: the value a statement produces is computed once
\* and the statements after it (Rest) read it under a name.
Then(value, Rest(_)) == Rest(value)

\* sorted(items, key=...): Python's sort is stable; keys[i] is the key of
\* items[i]. Item i lands after every item with a smaller key and after the
\* earlier items with an equal key.
sorted(items, keys) ==
    LET n == Len(items)
        Rank(i) == Cardinality({j \in 1..n : StrLess(keys[j], keys[i])})
                   + Cardinality({j \in 1..(i - 1) : keys[j] = keys[i]}) + 1
    IN  [p \in 1..n |-> items[CHOOSE i \in 1..n : Rank(i) = p]]

\* int == str in Python: never equal.
PyEqIntStr(i, str) == FALSE

\* x in seq for an int x and a sequence of str: Python compares x with every
\* element.
PyIntInStrs(x, strs) == \E k \in DOMAIN strs : PyEqIntStr(x, strs[k])

\* The lines of vim.current.range (start, end: 0-based, end inclusive).
RangeLines(buf, rng) == Slice(buf, rng.start, rng.end + 1)

\* The host keeps the cursor on a character of its line.
check_cursor_col(buf, cur) ==
    IF cur.line \in 1..Len(buf) /\ cur.col >= Len(buf[cur.line])
    THEN [cur EXCEPT !.col = IF Len(buf[cur.line]) = 0 THEN 0
                              ELSE Len(buf[cur.line]) - 1]
    ELSE cur

check_cursor(buf, cur) ==
    check_cursor_col(buf, [cur EXCEPT !.line = IF @ > Len(buf) THEN Len(buf)
                                                ELSE IF @ < 1 THEN 1 ELSE @])

\* What the host does to the cursor when the lines lo..hi-1 (line numbers)
\* were replaced and the buffer grew by extra lines.
py_fix_cursor(buf, cur, lo, hi, extra) ==
    IF cur.line >= lo
    THEN IF cur.line >= hi
         THEN check_cursor_col(buf, [cur EXCEPT !.line = @ + extra])
         ELSE IF extra < 0 THEN check_cursor(buf, [cur EXCEPT !.line = lo])
         ELSE check_cursor_col(buf, cur)
    ELSE cur

\* vim.current.buffer[a:b] = lines
BufferAssign(h, a, b, lines) ==
    LET lo == Clamp(a, Len(h.buf))
        hi0 == Clamp(b, Len(h.buf))
        hi == IF hi0 < lo THEN lo ELSE hi0
        newBuf == SliceAssign(h.buf, a, b, lines)
    IN  [h EXCEPT !.buf = newBuf,
                  !.cur = py_fix_cursor(newBuf, @, lo + 1, hi + 1,
                                        Len(lines) - (hi - lo))]

\* The folds that are closed once the buffer has become newBuf: a fold that
\* stays where it was keeps its state, a new fold is closed ('foldlevel' 0).
Refold(h) ==
    LET F == HostFolds(h.buf)
    IN  [h EXCEPT !.folds = F,
                  !.lvl = [i \in 1..Len(h.buf) |-> FoldLevel(h.buf, i)],
                  !.closed = {f \in F : f \in h.closed \/ f \notin h.folds}]

\* --------------------------------- python3/sort_folds/__init__.py (0.3.0)
\* perform_motion(motion): the host state after it; the value returned is the
\* cursor line of that state.
perform_motion(h, motion) ==
    IF motion = NoMotion THEN h ELSE vim_command(h, motion)

get_fold_level(h, line_num) ==
    IF line_num \in DOMAIN h.lvl THEN h.lvl[line_num] ELSE 0

\* with cursor_restorer(): body -- h0 is the host on entry, hBody the host
\* when the body is left (normally or by an exception, which stays in
\* flight); the finally clause puts the cursor back.
cursor_restorer(h0, hBody) ==
    LET initial_cursor == h0.cur
        hExit == [hBody EXCEPT !.cur = initial_cursor]
    IN  [hExit EXCEPT !.scopes =
            Append(@, [entry |-> h0.cur, left |-> hBody.cur,
                       exit |-> hExit.cur, exc |-> hBody.exc])]

\* A test of the line number against the bounds of the range, in place of
\* the membership test.
cursor_between_range_bounds(h, rng, cursor) ==
    rng.start <= cursor /\ cursor <= rng.end

\* cursor in vim.current.range: vim.current.range is a sequence of lines, so
\* this asks whether the int is one of the lines.
cursor_in_vim_current_range(h, rng, cursor) ==
    PyIntInStrs(cursor, RangeLines(h.buf, rng))

move_to_first_fold(h, rng) ==
    Then(perform_motion(h, NoMotion), LAMBDA h0 :
    LET cursor == h0.cur.line
    IN  IF get_fold_level(h0, cursor) = 0
        THEN Then(perform_motion(h0, <<"zj">>), LAMBDA h1 :
             LET next_fold_start == h1.cur.line
             IN  IF h1.exc # "none" \/ cursor = next_fold_start
                 THEN [h |-> h1, ret |-> None]
                 ELSE [h |-> h1,
                       ret |-> IF cursor_in_vim_current_range(h1, rng, next_fold_start)
                               THEN next_fold_start ELSE None])
        ELSE Then(perform_motion(h0, <<"zo", "[z">>), LAMBDA hBody :
             Then(cursor_restorer(h0, hBody), LAMBDA h1 :
             LET prev_fold_start == hBody.cur.line
                 cursor2 == IF get_fold_level(h1, cursor)
                                = get_fold_level(h1, prev_fold_start)
                            THEN prev_fold_start ELSE cursor
             IN  IF h1.exc # "none" THEN [h |-> h1, ret |-> None]
                 ELSE [h |-> h1,
                       ret |-> IF cursor_in_vim_current_range(h1, rng, cursor2)
                               THEN cursor2 ELSE None])))

\* The loop of walk_over_folds; acc holds the (start, end) pairs yielded.
RECURSIVE walk_over_folds_loop(_, _, _, _, _)
walk_over_folds_loop(h, rng, cursor, at_end_of_folds, acc) ==
    IF h.exc # "none" \/ at_end_of_folds
       \/ ~cursor_in_vim_current_range(h, rng, cursor)
    THEN [h |-> h, ranges |-> acc]
    ELSE Then(perform_motion(h, <<"zo", "]z">>), LAMBDA h1 :
         Then(perform_motion(h1, <<"zj">>), LAMBDA h2 :
         LET start == cursor
             end == h1.cur.line + 1
             cursor2 == h2.cur.line
             at_end2 == (cursor2 = start
                         \/ get_fold_level(h2, cursor2) # get_fold_level(h2, start))
         IN  IF h1.exc # "none" THEN [h |-> h1, ranges |-> acc]
             ELSE walk_over_folds_loop(h2, rng, cursor2, at_end2,
                                       Append(acc, <<start, end>>))))

walk_over_folds(h, rng) ==
    Then(move_to_first_fold(h, rng), LAMBDA m :
    walk_over_folds_loop(m.h, rng, m.ret, m.ret = None, << >>))

\* Fold(start_line_num, end_line_num)
Fold(r) == [start |-> r[1] - 1, end |-> r[2] - 1]

\* Fold.get(index): the body reads self.start + i, and no name i is bound,
\* so the call raises NameError.
Fold_get(h, fold, index) == [exc |-> "NameError", val |-> << >>]

\* for old_fold, new_fold in reversed(list(zip(initial_folds, sorted_folds))):
\*     old_fold[vim.current.buffer] = new_fold[buffer_copy]
\* done for the pairs i, i-1, ..., 1.
RECURSIVE swap_folds(_, _, _, _, _)
swap_folds(h, buffer_copy, initial_folds, sorted_folds, i) ==
    IF i = 0 THEN h
    ELSE swap_folds(
            BufferAssign(h, initial_folds[i].start, initial_folds[i].end,
                         Slice(buffer_copy, sorted_folds[i].start,
                               sorted_folds[i].end)),
            buffer_copy, initial_folds, sorted_folds, i - 1)

present_result(h) ==
    Then(perform_motion(h, <<"zX", "zC">>), LAMBDA h1 :
    LET level == get_fold_level(h1, h1.cur.line)
    IN  IF h1.exc # "none" \/ level = 0 THEN h1
        ELSE vim_command(h1, [k \in 1..level |-> "zo"]))

\* sort_folds(key_index): the host after the call and what the call did.
sort_folds_run(h0, rng, key_index) ==
    Then(walk_over_folds(h0, rng), LAMBDA w :
    Then(cursor_restorer(h0, w.h), LAMBDA h1 :
    Then([i \in 1..Len(w.ranges) |-> Fold(w.ranges[i])], LAMBDA initial_folds :
    Then([i \in 1..Len(initial_folds) |->
             Fold_get(h1, initial_folds[i], key_index)], LAMBDA keys :
    LET buffer_copy == h0.buf
        bad == {i \in DOMAIN keys : keys[i].exc # "none"}
    IN  IF h1.exc # "none"
        THEN [h |-> h1, folds |-> initial_folds, sorted |-> << >>,
              stage |-> "discovery"]
        ELSE IF bad # {}
        THEN [h |-> [h1 EXCEPT !.exc = keys[Min(bad)].exc],
              folds |-> initial_folds, sorted |-> << >>, stage |-> "sort"]
        ELSE Then(sorted(initial_folds,
                         [i \in DOMAIN keys |-> lower(keys[i].val)]),
                  LAMBDA sorted_folds :
             Then(present_result(
                      Refold(swap_folds(h1, buffer_copy, initial_folds,
                                        sorted_folds, Len(initial_folds)))),
                  LAMBDA h3 :
             [h |-> h3, folds |-> initial_folds, sorted |-> sorted_folds,
              stage |-> IF h3.exc # "none" THEN "present" ELSE "returned"]))))))

\* --------------------------------- python3/SortFolds/__init__.py (0.1.1)
fold_level(h, line_num) ==
    IF line_num \in DOMAIN h.lvl THEN h.lvl[line_num] ELSE 0

\* with restore_cursor(): body
restore_cursor(h0, hBody) ==
    LET initial_cursor == h0.cur
        hExit == [hBody EXCEPT !.cur = initial_cursor]
    IN  [hExit EXCEPT !.scopes =
            Append(@, [entry |-> h0.cur, left |-> hBody.cur,
                       exit |-> hExit.cur, exc |-> hBody.exc])]

\* vim.current.range.start <= fold_start < vim.current.range.end, the
\* attributes 0-based and fold_start a line number.
SortFolds_in_range(rng, fold_start) ==
    rng.start <= fold_start /\ fold_start < rng.end

move_to_first_fold_of_range(h, rng) ==
    Then(perform_motion(h, NoMotion), LAMBDA h0 :
    Then(IF fold_level(h0, h0.cur.line) = 0
         THEN perform_motion(h0, <<"zj">>) ELSE h0, LAMBDA h1 :
    LET fold_start == h1.cur.line
    IN  IF h1.exc # "none" \/ fold_level(h1, fold_start) = 0
        THEN [h |-> h1, ret |-> None]
        ELSE
    Then(vim_command(h1, <<"zo">>), LAMBDA h2 :
    Then(perform_motion(h2, <<"[z">>), LAMBDA hBody :
    Then(restore_cursor(h2, hBody), LAMBDA h3 :
    LET containing_fold_level == fold_level(hBody, hBody.cur.line)
    IN  IF h2.exc # "none" THEN [h |-> h2, ret |-> None]
        ELSE IF h3.exc # "none" THEN [h |-> h3, ret |-> None]
        ELSE
    Then(IF fold_level(h3, fold_start) = containing_fold_level
         THEN perform_motion(h3, <<"[z">>) ELSE h3, LAMBDA h4 :
    [h |-> h4,
     ret |-> IF h4.exc = "none" /\ SortFolds_in_range(rng, fold_start)
             THEN fold_start ELSE None]))))))

\* The loop with every span stretched down to the start of the next one.
RECURSIVE get_fold_ranges_loop_contiguous(_, _, _, _)
get_fold_ranges_loop_contiguous(h, rng, next_fold_start, acc) ==
    IF h.exc # "none" \/ ~(next_fold_start < rng.end)
    THEN [h |-> h, ranges |-> acc]
    ELSE Then(vim_command(h, <<"zo">>), LAMBDA h1 :
         Then(perform_motion(h1, <<"]z">>), LAMBDA h2 :
         Then(perform_motion(h2, <<"zj">>), LAMBDA h3 :
         LET fold_start == next_fold_start
             next2 == h3.cur.line
             fold_end == IF next2 > h2.cur.line THEN next2
                         ELSE h2.cur.line + 1
         IN  IF h2.exc # "none" THEN [h |-> h2, ranges |-> acc]
             ELSE IF h3.exc # "none"
                     \/ next2 = fold_start
                     \/ fold_level(h3, next2) # fold_level(h3, fold_start)
             THEN [h |-> h3, ranges |-> Append(acc, <<fold_start, fold_end>>)]
             ELSE get_fold_ranges_loop_contiguous(h3, rng, next2,
                     Append(acc, <<fold_start, fold_end>>)))))

\* The loop of get_fold_ranges_in_current_range.
RECURSIVE get_fold_ranges_loop(_, _, _, _)
get_fold_ranges_loop(h, rng, next_fold_start, acc) ==
    IF h.exc # "none" \/ ~(next_fold_start < rng.end)
    THEN [h |-> h, ranges |-> acc]
    ELSE Then(vim_command(h, <<"zo">>), LAMBDA h1 :
         Then(perform_motion(h1, <<"]z">>), LAMBDA h2 :
         Then(perform_motion(h2, <<"zj">>), LAMBDA h3 :
         LET fold_start == next_fold_start
             fold_end == h2.cur.line + 1
             next2 == h3.cur.line
         IN  IF h2.exc # "none" THEN [h |-> h2, ranges |-> acc]
             ELSE IF h3.exc # "none"
                     \/ next2 = fold_start
                     \/ fold_level(h3, next2) # fold_level(h3, fold_start)
             THEN [h |-> h3, ranges |-> Append(acc, <<fold_start, fold_end>>)]
             ELSE get_fold_ranges_loop(h3, rng, next2,
                                       Append(acc, <<fold_start, fold_end>>)))))

get_fold_ranges_in_current_range(h0, rng) ==
    Then(move_to_first_fold_of_range(h0, rng), LAMBDA m :
    Then(IF m.h.exc # "none" \/ m.ret = None
         THEN [h |-> m.h, ranges |-> << >>]
         ELSE get_fold_ranges_loop(m.h, rng, m.ret, << >>), LAMBDA w :
    [h |-> restore_cursor(h0, w.h), ranges |-> w.ranges]))

\* Fold(start_line_num, end_line_num)
SortFolds_Fold(r) ==
    IF r[1] > r[2]
    THEN [exc |-> "IndexError", start |-> 0, end |-> 0]
    ELSE [exc |-> "none", start |-> r[1] - 1, end |-> r[2] - 1]

\* vim.current.buffer[i]
BufferItem(buf, i) ==
    IF i >= 0 /\ i < Len(buf) THEN [exc |-> "none", val |-> buf[i + 1]]
    ELSE [exc |-> "IndexError", val |-> << >>]

\* Fold.__getitem__(i)
SortFolds_Fold_getitem(h, fold, i) ==
    IF 0 <= i /\ i < fold.end - fold.start
    THEN BufferItem(h.buf, fold.start + i)
    ELSE [exc |-> "IndexError", val |-> << >>]

\* The key of sorted(initial_folds, key=operator.itemgetter(0)).
SortFolds_key(h, fold, line_num_key) == SortFolds_Fold_getitem(h, fold, 0)

\* The same loop reading the lines to write from the live buffer.
RECURSIVE SortFolds_swap_live(_, _, _, _, _)
SortFolds_swap_live(h, initial_buf, initial_folds, sorted_folds, i) ==
    IF i = 0 THEN h
    ELSE SortFolds_swap_live(
            BufferAssign(h, initial_folds[i].start, initial_folds[i].end,
                         Slice(h.buf, sorted_folds[i].start,
                               sorted_folds[i].end)),
            initial_buf, initial_folds, sorted_folds, i - 1)

\* The same assignments made from the first pair to the last.
RECURSIVE SortFolds_swap_forward(_, _, _, _, _)
SortFolds_swap_forward(h, initial_buf, initial_folds, sorted_folds, i) ==
    IF i = 0 THEN h
    ELSE LET k == Len(initial_folds) - i + 1
         IN  SortFolds_swap_forward(
                BufferAssign(h, initial_folds[k].start, initial_folds[k].end,
                             Slice(initial_buf, sorted_folds[k].start,
                                   sorted_folds[k].end)),
                initial_buf, initial_folds, sorted_folds, i - 1)

\* for dst, src in reversed(list(zip(initial_folds, sorted_folds))):
\*     vim.current.buffer[dst.start:dst.end] = initial_buf[src.start:src.end]
RECURSIVE SortFolds_swap(_, _, _, _, _)
SortFolds_swap(h, initial_buf, initial_folds, sorted_folds, i) ==
    IF i = 0 THEN h
    ELSE SortFolds_swap(
            BufferAssign(h, initial_folds[i].start, initial_folds[i].end,
                         Slice(initial_buf, sorted_folds[i].start,
                               sorted_folds[i].end)),
            initial_buf, initial_folds, sorted_folds, i - 1)

SortFolds_sort_folds_run(h0, rng, line_num_key) ==
    Then(get_fold_ranges_in_current_range(h0, rng), LAMBDA w :
    Then([i \in 1..Len(w.ranges) |-> SortFolds_Fold(w.ranges[i])], LAMBDA made :
    Then([i \in DOMAIN made |->
             [start |-> made[i].start, end |-> made[i].end]],
         LAMBDA initial_folds :
    Then([i \in DOMAIN made |->
             SortFolds_key(w.h, initial_folds[i], line_num_key)], LAMBDA keys :
    LET initial_buf == h0.buf
        h1 == w.h
        badFold == {i \in DOMAIN made : made[i].exc # "none"}
        bad == {i \in DOMAIN keys : keys[i].exc # "none"}
    IN  IF h1.exc # "none"
        THEN [h |-> h1, folds |-> initial_folds, sorted |-> << >>,
              stage |-> "discovery"]
        ELSE IF badFold # {}
        THEN [h |-> [h1 EXCEPT !.exc = "IndexError"],
              folds |-> initial_folds, sorted |-> << >>, stage |-> "discovery"]
        ELSE IF bad # {}
        THEN [h |-> [h1 EXCEPT !.exc = keys[Min(bad)].exc],
              folds |-> initial_folds, sorted |-> << >>, stage |-> "sort"]
        ELSE Then(sorted(initial_folds, [i \in DOMAIN keys |-> keys[i].val]),
                  LAMBDA sorted_folds :
             Then(vim_command(
                      Refold(SortFolds_swap(h1, initial_buf, initial_folds,
                                            sorted_folds, Len(initial_folds))),
                      <<"zx">>),
                  LAMBDA h3 :
             [h |-> h3, folds |-> initial_folds, sorted |-> sorted_folds,
              stage |-> IF h3.exc # "none" THEN "present" ELSE "returned"]))))))

\* ------------------------------------------- python3/sort_folds/cursor.py
\* A scope whose __exit__ leaves the cursor where the body left it.
CursorRestorer_without_exit(h0, hBody) ==
    [hBody EXCEPT !.scopes =
        Append(@, [entry |-> h0.cur, left |-> hBody.cur,
                   exit |-> hBody.cur, exc |-> hBody.exc])]

\* with CursorRestorer(): body -- __enter__ captures the cursor, __exit__
\* puts it back and returns None, so an exception stays in flight.
CursorRestorer(h0, hBody) ==
    LET initial_cursor == h0.cur
        hExit == [hBody EXCEPT !.cur = initial_cursor]
    IN  [hExit EXCEPT !.scopes =
            Append(@, [entry |-> h0.cur, left |-> hBody.cur,
                       exit |-> hExit.cur, exc |-> hBody.exc])]

motion_failed(cursor_from, cursor_to) == cursor_from = cursor_to

is_in_current_vim_range(rng, line_num) ==
    rng.start <= line_num /\ line_num <= rng.end

cursor_move_to_first_fold(h, rng) ==
    Then(perform_motion(h, NoMotion), LAMBDA h0 :
    LET cursor == h0.cur.line
    IN  IF fold_level(h0, cursor) = 0
        THEN Then(perform_motion(h0, <<"zj">>), LAMBDA h1 :
             LET next_fold_start == h1.cur.line
             IN  IF h1.exc # "none" \/ motion_failed(cursor, next_fold_start)
                 THEN [h |-> h1, ret |-> None]
                 ELSE [h |-> h1,
                       ret |-> IF is_in_current_vim_range(rng, next_fold_start)
                               THEN next_fold_start ELSE None])
        ELSE Then(perform_motion(h0, <<"zo", "[z">>), LAMBDA hBody :
             Then(CursorRestorer(h0, hBody), LAMBDA h1 :
             LET prev_fold_start == hBody.cur.line
                 cursor2 == IF ~motion_failed(cursor, prev_fold_start)
                               /\ fold_level(h1, cursor)
                                    = fold_level(h1, prev_fold_start)
                            THEN prev_fold_start ELSE cursor
             IN  IF h1.exc # "none" THEN [h |-> h1, ret |-> None]
                 ELSE [h |-> h1,
                       ret |-> IF is_in_current_vim_range(rng, cursor2)
                               THEN cursor2 ELSE None])))

\* The loop of walk_folds; acc holds the (fold_start, fold_end) pairs yielded.
RECURSIVE walk_folds_loop(_, _, _, _)
walk_folds_loop(h, rng, cursor, acc) ==
    IF h.exc # "none" \/ cursor = None \/ ~is_in_current_vim_range(rng, cursor)
    THEN [h |-> h, ranges |-> acc]
    ELSE Then(perform_motion(h, <<"zo", "]z">>), LAMBDA h1 :
         Then(perform_motion(h1, <<"zj">>), LAMBDA h2 :
         LET fold_start == cursor
             fold_end == h1.cur.line + 1
             cursor2 == IF motion_failed(h2.cur.line, fold_start)
                           \/ fold_level(h2, h2.cur.line)
                                # fold_level(h2, fold_start)
                        THEN None ELSE h2.cur.line
         IN  IF h2.exc # "none" THEN [h |-> h2, ranges |-> acc]
             ELSE walk_folds_loop(h2, rng, cursor2,
                                  Append(acc, <<fold_start, fold_end>>))))

\* list(walk_folds())
walk_folds_run(h0, rng) ==
    Then(cursor_move_to_first_fold(h0, rng), LAMBDA m :
    Then(walk_folds_loop(m.h, rng, m.ret, << >>), LAMBDA w :
    [h |-> w.h, folds |-> w.ranges, sorted |-> << >>,
     stage |-> IF w.h.exc # "none" THEN "discovery" ELSE "returned"]))

\* --------------------------------------------- python3/sort_folds/fold.py
\* VimFold(start, stop)
VimFold(start, stop) ==
    IF start > stop
    THEN [exc |-> "ValueError", start |-> 0, stop |-> 0]
    ELSE [exc |-> "none", start |-> start - 1, stop |-> stop - 1]

\* VimFold.__len__
VimFold_len(fold) == fold.stop - fold.start

\* _Bounds.validate(fold, value): the method reads the names INDICES, SIZES
\* and UNBOUNDED, which are bound in the class body and in no scope the
\* method sees, so its first test raises NameError.
Bounds_validate(bounds, fold, value) == [exc |-> "NameError", val |-> FALSE]

\* VimFold._clamp(index, bounds)
VimFold_clamp(fold, index, bounds) ==
    LET len == VimFold_len(fold)
        valid == Bounds_validate(bounds, fold, index)
        lower_bounded == IF index > -len THEN index ELSE -len
        bounded == IF lower_bounded < len THEN lower_bounded ELSE len
        clamped_index == bounded % (len + 1)
    IN  IF valid.exc # "none" THEN [exc |-> valid.exc, val |-> 0]
        ELSE IF ~valid.val THEN [exc |-> "IndexError", val |-> 0]
        ELSE [exc |-> "none", val |-> fold.start + clamped_index]

\* VimFold(start, stop)[key] for an int key: what was raised and where, and
\* the buffer index _clamp computed.
VimFold_getitem(buf, start, stop, key) ==
    LET fold == VimFold(start, stop)
        index == VimFold_clamp(fold, key, "INDICES")
        item == BufferItem(buf, index.val)
    IN  IF fold.exc # "none"
        THEN [exc |-> fold.exc, stage |-> "init", ret |-> 0]
        ELSE IF index.exc # "none"
        THEN [exc |-> index.exc, stage |-> "clamp", ret |-> 0]
        ELSE [exc |-> item.exc, ret |-> index.val,
              stage |-> IF item.exc # "none" THEN "buffer" ELSE "returned"]

\* ------------------------------------------------ pythonx/SortFolds/__init__.py
\* normal(cmd)
normal(h, cmd) == vim_command(h, cmd)

\* Fold.__getitem__(line_number): vim.current.buffer[self.start + line_number]
pythonx_Fold_getitem(buf, fold, line_number) ==
    BufferItem(buf, fold.start + line_number)

\* The while loop of get_folds; acc holds the folds yielded.
RECURSIVE get_folds_loop(_, _, _, _, _)
get_folds_loop(h, cr, fold_start, fold_end, acc) ==
    IF h.exc # "none" \/ fold_end = cr.end THEN [h |-> h, folds |-> acc]
    ELSE Then(normal(h, <<"zj">>), LAMBDA h1 :
         LET next_fold == h1.cur.line - 1
             e1 == IF next_fold < cr.end THEN next_fold ELSE cr.end
             e2 == IF e1 = fold_start THEN cr.end ELSE e1
             e3 == IF e2 = cr.end THEN e2 + 1 ELSE e2
             fold == [start |-> fold_start, end |-> e3]
         IN  IF h1.exc # "none" \/ e1 < fold_start
             THEN [h |-> h1, folds |-> acc]
             ELSE get_folds_loop(h1, cr, e3, e3,
                     IF fold.end - fold.start > 0 THEN Append(acc, fold)
                     ELSE acc))

\* list(get_folds()); normal(cr.start + 1) hands the host a bare count.
get_folds(h0, cr) ==
    Then(normal(h0, <<"count">>), LAMBDA h1 :
    Then(get_folds_loop(h1, cr, cr.start, -1, << >>), LAMBDA w :
    LET pos == h0.cur
    IN  [h |-> IF w.h.exc # "none" THEN w.h ELSE [w.h EXCEPT !.cur = pos],
         folds |-> w.folds]))

RECURSIVE chain(_, _)
chain(buf, folds) ==
    IF folds = << >> THEN << >>
    ELSE Slice(buf, Head(folds).start, Head(folds).end)
         \o chain(buf, Tail(folds))

pythonx_sort_folds_run(h0, cr, sort_line) ==
    Then(get_folds(h0, cr), LAMBDA w :
    Then([i \in DOMAIN w.folds |->
             pythonx_Fold_getitem(w.h.buf, w.folds[i], sort_line)], LAMBDA keys :
    LET h1 == w.h
        bad == {i \in DOMAIN keys : keys[i].exc # "none"}
    IN  IF h1.exc # "none"
        THEN [h |-> h1, folds |-> w.folds, sorted |-> << >>,
              stage |-> "discovery"]
        ELSE IF bad # {}
        THEN [h |-> [h1 EXCEPT !.exc = keys[Min(bad)].exc],
              folds |-> w.folds, sorted |-> << >>, stage |-> "sort"]
        ELSE Then(sorted(w.folds, [i \in DOMAIN keys |-> keys[i].val]),
                  LAMBDA sorted_folds :
             Then(chain(h1.buf, sorted_folds), LAMBDA sorted_lines :
             [h |-> Refold(BufferAssign(h1, cr.start, cr.end + 1, sorted_lines)),
              folds |-> w.folds, sorted |-> sorted_folds,
              stage |-> "returned"]))))

\* ------------------------------------------------------------- the state
VARIABLES
    buffer,   \* vim.current.buffer: the lines
    closed,   \* the folds of the buffer that are closed
    cursor,   \* vim.current.window.cursor: [line (1-based), col]
    range,    \* vim.current.range: [start, end], 0-based, end inclusive
    call      \* the last invocation: what was called and what it did

vars == <<buffer, closed, cursor, range, call>>

\* A line: one letter, then its fold-open markers, then its fold-close ones.
Render(letters, o, c) ==
    [i \in DOMAIN letters |->
        <<letters[i]>> \o [k \in 1..o[i] |-> OpenMark]
                       \o [k \in 1..c[i] |-> CloseMark]]

\* The markers are balanced and nest at most maxDepth deep.
WellFormed(n, o, c, maxDepth) ==
    LET lvl[j \in 0..n] == IF j = 0 THEN 0 ELSE lvl[j - 1] + o[j] - c[j]
    IN  /\ \A j \in 1..n : lvl[j - 1] + o[j] <= maxDepth /\ lvl[j] >= 0
        /\ lvl[n] = 0

NoCall ==
    [impl |-> "none", key |-> 0, failAt |-> 0, buffer |-> << >>,
     closed |-> {}, cursor |-> [line |-> 0, col |-> 0], folds |-> << >>,
     sorted |-> << >>, exc |-> "none", scopes |-> << >>, stage |-> "none",
     args |-> << >>, ret |-> None]

\* An Ex range that touches a closed fold is widened to the whole fold, so
\* with closed folds F the range s..e (0-based) neither starts nor ends in
\* the middle of one.
Aligned(F, s, e) ==
    \A f \in F : /\ ~(f.top < s + 1 /\ s + 1 <= f.bot)
                 /\ ~(f.top <= e + 1 /\ e + 1 < f.bot)

\* The editor when the command is invoked on a Visual selection: the folds
\* are all closed (as 'foldlevel' 0 leaves them) or all open, and the cursor
\* is on the first line of the range.
InitOn(lines, maxCol) ==
    /\ buffer = lines
    /\ \E allClosed \in BOOLEAN :
         closed = IF allClosed THEN HostFolds(buffer) ELSE {}
    /\ \E s \in 0..(Len(lines) - 1), e \in 0..(Len(lines) - 1) :
         /\ s <= e
         /\ Aligned(closed, s, e)
         /\ range = [start |-> s, end |-> e]
         /\ \E col \in 0..maxCol :
              /\ col < Len(buffer[s + 1])
              /\ cursor = [line |-> s + 1, col |-> col]
    /\ call = NoCall

InitFor(maxLines, maxDepth, letterSet, maxCol) ==
    \E n \in 1..maxLines :
      \E o \in [1..n -> 0..maxDepth], c \in [1..n -> 0..maxDepth] :
        /\ WellFormed(n, o, c, maxDepth)
        /\ \E letters \in [1..n -> letterSet] :
             InitOn(Render(letters, o, c), maxCol)

\* A fold of len lines whose first line starts with the letter key.
FoldLines(len, key) ==
    IF len = 1 THEN << <<key, OpenMark, CloseMark>> >>
    ELSE << <<key, OpenMark>> >> \o [i \in 1..(len - 2) |-> <<97>>]
         \o << <<97, CloseMark>> >>

\* An unfolded line "x", a fold, an unfolded line "y", a fold, an unfolded
\* line "z": the folds of 1..ScenarioLen lines, their first lines free.
InitScenario ==
    \E len1 \in 1..ScenarioLen, len2 \in 1..ScenarioLen :
      \E key1 \in Alphabet, key2 \in Alphabet :
        InitOn(<< <<120>> >> \o FoldLines(len1, key1) \o << <<121>> >>
               \o FoldLines(len2, key2) \o << <<122>> >>, 0)

\* Every layout of folds, the text of every line the same letter.
Init == InitFor(MaxLines, MaxDepth, {97}, MaxCol)

\* Every text over the alphabet, the cursor in column 0.
InitSort == InitFor(SortLines, SortDepth, Alphabet, 0) \/ InitScenario

Called(impl, key_index, failAt, r) ==
    /\ call.impl = "none"
    /\ buffer' = r.h.buf
    /\ closed' = r.h.closed
    /\ cursor' = r.h.cur
    /\ UNCHANGED range
    /\ call' = [impl |-> impl, key |-> key_index, failAt |-> failAt,
                buffer |-> buffer, closed |-> closed, cursor |-> cursor,
                folds |-> r.folds, sorted |-> r.sorted, exc |-> r.h.exc,
                scopes |-> r.h.scopes, stage |-> r.stage,
                args |-> IF "args" \in DOMAIN r THEN r.args ELSE << >>,
                ret |-> IF "ret" \in DOMAIN r THEN r.ret ELSE None]

\* :py3 sort_folds.sort_folds(key_index)   (0.3.0)
sort_folds(key_index, failAt) ==
    Called("sort_folds", key_index, failAt,
           sort_folds_run(Host(buffer, closed, cursor, failAt), range, key_index))

\* list(walk_folds())   (cursor.py)
walk_folds(failAt) ==
    Called("walk_folds", 0, failAt,
           walk_folds_run(Host(buffer, closed, cursor, failAt), range))

\* :py3 SortFolds.sort_folds(line_num_key)   (0.1.1)
SortFolds_sort_folds(line_num_key, failAt) ==
    Called("SortFolds_sort_folds", line_num_key, failAt,
           SortFolds_sort_folds_run(Host(buffer, closed, cursor, failAt),
                                    range, line_num_key))

\* :py3 SortFolds.sort_folds(sort_line)   (pythonx)
pythonx_sort_folds(sort_line) ==
    Called("pythonx_sort_folds", sort_line, 0,
           pythonx_sort_folds_run(Host(buffer, closed, cursor, 0), range,
                                  sort_line))

\* list(get_folds()) on its own, as debug() runs it   (pythonx)
call_get_folds ==
    Called("get_folds", 0, 0,
           Then(get_folds(Host(buffer, closed, cursor, 0), range), LAMBDA w :
                [h |-> w.h, folds |-> w.folds, sorted |-> << >>,
                 stage |-> IF w.h.exc = "none" THEN "returned"
                           ELSE "discovery"]))

\* The host with an exception in flight (or none).
Raised(exc) == [Host(buffer, closed, cursor, 0) EXCEPT !.exc = exc]

\* Fold(start_line_num, end_line_num)   (0.3.0)
Fold_init(start_line_num, end_line_num) ==
    Called("Fold", 0, 0,
           [h |-> Raised("none"),
            folds |-> << Fold(<<start_line_num, end_line_num>>) >>,
            sorted |-> << >>, stage |-> "returned",
            args |-> <<start_line_num, end_line_num>>])

\* Fold(start_line_num, end_line_num)   (0.1.1)
SortFolds_Fold_init(start_line_num, end_line_num) ==
    Called("SortFolds_Fold", 0, 0,
           Then(SortFolds_Fold(<<start_line_num, end_line_num>>), LAMBDA fold :
                [h |-> Raised(fold.exc),
                 folds |-> IF fold.exc = "none"
                           THEN << [start |-> fold.start, end |-> fold.end] >>
                           ELSE << >>,
                 sorted |-> << >>,
                 stage |-> IF fold.exc = "none" THEN "returned" ELSE "init",
                 args |-> <<start_line_num, end_line_num>>]))

\* VimFold(start, stop)   (fold.py)
VimFold_init(start, stop) ==
    Called("VimFold", 0, 0,
           Then(VimFold(start, stop), LAMBDA fold :
                [h |-> Raised(fold.exc),
                 folds |-> IF fold.exc = "none"
                           THEN << [start |-> fold.start, end |-> fold.stop] >>
                           ELSE << >>,
                 sorted |-> << >>,
                 stage |-> IF fold.exc = "none" THEN "returned" ELSE "init",
                 args |-> <<start, stop>>]))

\* VimFold(start, stop)[key]   (fold.py)
VimFold_getitem_call(start, stop, key) ==
    Called("VimFold_getitem", key, 0,
           Then(VimFold_getitem(buffer, start, stop, key), LAMBDA r :
                [h |-> Raised(r.exc), folds |-> << >>, sorted |-> << >>,
                 stage |-> r.stage, args |-> <<start, stop, key>>,
                 ret |-> r.ret]))

Next ==
    \/ \E key_index \in 0..MaxKey, failAt \in 0..MaxFailAt :
          sort_folds(key_index, failAt)
    \/ \E failAt \in 0..MaxFailAt : walk_folds(failAt)
    \/ \E line_num_key \in 0..MaxKey, failAt \in 0..MaxFailAt :
          SortFolds_sort_folds(line_num_key, failAt)
    \/ \E sort_line \in 0..MaxKey : pythonx_sort_folds(sort_line)
    \/ \E start_line_num \in 1..(MaxLines + 1),
          end_line_num \in 1..(MaxLines + 1) :
          \/ Fold_init(start_line_num, end_line_num)
          \/ SortFolds_Fold_init(start_line_num, end_line_num)
          \/ VimFold_init(start_line_num, end_line_num)
    \/ call_get_folds

Spec == Init /\ [][Next]_vars

\* The host raises nothing.
NextSort ==
    \/ \E key_index \in 0..MaxKey : sort_folds(key_index, 0)
    \/ \E line_num_key \in 0..MaxKey : SortFolds_sort_folds(line_num_key, 0)
    \/ \E sort_line \in 0..MaxKey : pythonx_sort_folds(sort_line)

SpecSort == InitSort /\ [][NextSort]_vars

\* move_to_first_fold() on its own   (0.3.0)
call_move_to_first_fold ==
    Called("move_to_first_fold", 0, 0,
           Then(move_to_first_fold(Host(buffer, closed, cursor, 0), range),
                LAMBDA m : [h |-> m.h, folds |-> << >>, sorted |-> << >>,
                            stage |-> "returned", ret |-> m.ret]))

\* move_to_first_fold() on its own   (cursor.py)
call_cursor_move_to_first_fold ==
    Called("cursor_move_to_first_fold", 0, 0,
           Then(cursor_move_to_first_fold(Host(buffer, closed, cursor, 0), range),
                LAMBDA m : [h |-> m.h, folds |-> << >>, sorted |-> << >>,
                            stage |-> "returned", ret |-> m.ret]))

\* move_to_first_fold_of_range() on its own   (0.1.1)
call_move_to_first_fold_of_range ==
    Called("move_to_first_fold_of_range", 0, 0,
           Then(move_to_first_fold_of_range(Host(buffer, closed, cursor, 0), range),
                LAMBDA m : [h |-> m.h, folds |-> << >>, sorted |-> << >>,
                            stage |-> "returned", ret |-> m.ret]))

\* Every layout of folds in a longer buffer, the text of every line the same.
InitWalk == InitFor(WalkLines, WalkDepth, {97}, 0)

\* Discovery and its first step; the host raises nothing.
NextWalk ==
    \/ walk_folds(0)
    \/ sort_folds(0, 0)
    \/ SortFolds_sort_folds(0, 0)
    \/ call_move_to_first_fold
    \/ call_cursor_move_to_first_fold
    \/ call_move_to_first_fold_of_range

SpecWalk == InitWalk /\ [][NextWalk]_vars

\* The editor when the command is invoked with a range typed on the command
\* line (:2,3py3 ...): the cursor is on any line, not inside a closed fold
\* below its first line.
InitTypedOn(lines) ==
    /\ buffer = lines
    /\ \E allClosed \in BOOLEAN :
         closed = IF allClosed THEN HostFolds(buffer) ELSE {}
    /\ \E s \in 0..(Len(lines) - 1), e \in 0..(Len(lines) - 1) :
         /\ s <= e
         /\ Aligned(closed, s, e)
         /\ range = [start |-> s, end |-> e]
    /\ \E line \in 1..Len(lines) :
         /\ \A f \in closed : ~(f.top < line /\ line <= f.bot)
         /\ cursor = [line |-> line, col |-> 0]
    /\ call = NoCall

InitTyped ==
    \E n \in 1..TypedLines :
      \E o \in [1..n -> 0..TypedDepth], c \in [1..n -> 0..TypedDepth] :
        /\ WellFormed(n, o, c, TypedDepth)
        /\ \E letters \in [1..n -> Alphabet] :
             InitTypedOn(Render(letters, o, c))

NextTyped ==
    \/ call_get_folds
    \/ \E sort_line \in 0..MaxKey : pythonx_sort_folds(sort_line)

SpecTyped == InitTyped /\ [][NextTyped]_vars

\* Buffers without folds.
InitFold == InitFor(FoldBufLines, 0, {97}, 0)

\* Indexing a fold made from any pair of line numbers with any int.
NextFold ==
    \E start \in 1..(FoldBufLines + 1), stop \in 1..(FoldBufLines + 1),
       key \in (-MaxIndex)..MaxIndex :
       VimFold_getitem_call(start, stop, key)

SpecFold == InitFold /\ [][NextFold]_vars

\* ------------------------------------------------------------ the claims
\* What the last invocation found and wrote, read off the state.
SortCall == call.impl \in {"sort_folds", "SortFolds_sort_folds"}
Completed == call.stage = "returned"
NumFolds == Len(call.folds)
SpanLen(i) == call.folds[i].end - call.folds[i].start
SortedLen(i) == call.sorted[i].end - call.sorted[i].start

\* The spans lie one below the other.
DisjointSpans ==
    \A i \in 1..(NumFolds - 1) : call.folds[i].end <= call.folds[i + 1].start

\* Every span has a line at offset call.key.
KeyInEverySpan == \A i \in 1..NumFolds : call.key < SpanLen(i)

\* The lines of the i-th span before the invocation.
OrigBlock(i) == Slice(call.buffer, call.folds[i].start, call.folds[i].end)

\* How far the blocks written to the first i spans moved the lines below them.
RECURSIVE Shift(_)
Shift(i) == IF i = 0 THEN 0 ELSE Shift(i - 1) + SortedLen(i) - SpanLen(i)

\* The lines now at the place of the i-th span.
NewStart(i) == call.folds[i].start + Shift(i - 1)
FinalBlock(i) == Slice(buffer, NewStart(i), NewStart(i) + SortedLen(i))

\* The lowercased key line of a block.
KeyOf(block) ==
    IF call.key < Len(block) THEN lower(block[call.key + 1]) ELSE << >>

SameBag(s, t) ==
    /\ Len(s) = Len(t)
    /\ \A i \in DOMAIN s :
         Cardinality({k \in DOMAIN s : s[k] = s[i]})
           = Cardinality({k \in DOMAIN t : t[k] = s[i]})

\* C1: after sort_folds(key_index) found n >= 2 folds, each longer than
\* key_index lines, the blocks read top to bottom are original blocks and
\* their lowercased key lines are in non-decreasing order.
C1_SortedByLoweredKey ==
    (SortCall /\ Completed /\ NumFolds >= 2 /\ KeyInEverySpan /\ DisjointSpans)
    => /\ \A i \in 1..NumFolds : \E j \in 1..NumFolds :
            FinalBlock(i) = OrigBlock(j)
       /\ \A i \in 1..NumFolds, j \in 1..NumFolds :
            i < j => StrLeq(KeyOf(FinalBlock(i)), KeyOf(FinalBlock(j)))

\* C2: whenever sort_folds completes, the blocks at the places of the spans
\* are, as a multiset, the blocks the spans held before, and the buffer has
\* as many lines as before.
C2_BlocksPermuted ==
    (SortCall /\ Completed)
    => /\ SameBag([i \in 1..NumFolds |-> OrigBlock(i)],
                  [i \in 1..NumFolds |-> FinalBlock(i)])
       /\ Len(buffer) = Len(call.buffer)

\* The place the i-th span's block was given by the sort.
Pos(i) == CHOOSE p \in 1..NumFolds : call.sorted[p] = call.folds[i]

\* C3: two folds whose lowercased key lines are equal keep their relative
\* order.
C3_Stable ==
    (SortCall /\ Completed /\ KeyInEverySpan /\ DisjointSpans)
    => \A i \in 1..NumFolds, j \in 1..NumFolds :
          (i < j /\ KeyOf(OrigBlock(i)) = KeyOf(OrigBlock(j)))
          => Pos(i) < Pos(j)

IsUpper(c) == c >= 65 /\ c <= 90

\* C4: a block whose key line starts with an upper-case letter never ends
\* above a block whose lowercased key line is smaller than its own.
C4_LowercasedComparison ==
    (SortCall /\ Completed /\ KeyInEverySpan /\ DisjointSpans)
    => \A i \in 1..NumFolds, j \in 1..NumFolds :
          (i < j /\ IsUpper(FinalBlock(i)[call.key + 1][1]))
          => ~StrLess(KeyOf(FinalBlock(j)), KeyOf(FinalBlock(i)))

\* C7: with a key index >= the length of the shortest discovered fold,
\* sort_folds raises IndexError and the buffer is as it was.
C7_KeyOutOfRange ==
    (SortCall /\ NumFolds >= 1 /\ call.exc # "vim.error" /\ DisjointSpans
        /\ \E i \in 1..NumFolds : call.key >= SpanLen(i))
    => call.exc = "IndexError" /\ buffer = call.buffer

\* C8: when the lowercased key lines of the discovered folds are already in
\* non-decreasing order, sort_folds leaves every line of the buffer as it was.
C8_SortedStaysPut ==
    (SortCall /\ Completed /\ KeyInEverySpan /\ DisjointSpans
        /\ \A i \in 1..(NumFolds - 1) :
              StrLeq(KeyOf(OrigBlock(i)), KeyOf(OrigBlock(i + 1))))
    => buffer = call.buffer

\* C5: when discovery found fewer than two folds and the host raised
\* nothing, sort_folds leaves every buffer line as it was and raises nothing,
\* whatever the key index.
C5_NoOpGuard ==
    (SortCall /\ NumFolds < 2 /\ call.exc # "vim.error")
    => buffer = call.buffer /\ call.exc = "none"

\* One fold was found and the key index is past its end.
C5_Witness ==
    /\ SortCall /\ Completed
    /\ NumFolds = 1 /\ call.key >= SpanLen(1)

AnySortCall ==
    call.impl \in {"sort_folds", "SortFolds_sort_folds", "pythonx_sort_folds"}

\* C6: after sort_folds returns, the cursor (line, column) is where it was
\* before the invocation.
C6_CursorRestored ==
    (AnySortCall /\ Completed) => cursor = call.cursor

\* The lines (numbered from 1) of the buffer before the invocation that are
\* in no discovered span.
OutsideLines ==
    {k \in 1..Len(call.buffer) :
        \A i \in 1..NumFolds : ~(call.folds[i].start < k /\ k <= call.folds[i].end)}

\* Where such a line is after the spans above it were rewritten.
NewIndex(k) ==
    k + Shift(Cardinality({i \in 1..NumFolds : call.folds[i].end < k}))

C10_ScopedCursor ==
    /\ \A k \in DOMAIN call.scopes :
         /\ call.scopes[k].exit = call.scopes[k].entry
         /\ call.scopes[k].exc # "none" => call.exc = call.scopes[k].exc
    /\ (SortCall /\ call.stage = "discovery")
       => cursor = call.cursor /\ call.exc # "none"

\* A scope was left by an exception with the cursor moved away from where it
\* was on entry.
C10_Witness ==
    \E k \in DOMAIN call.scopes :
       /\ call.scopes[k].exc # "none"
       /\ call.scopes[k].left # call.scopes[k].entry
       /\ call.scopes[k].exit = call.scopes[k].entry

\* ---------------------------------------------------- claims on discovery
\* The i-th recorded span in line numbers: start inclusive, end exclusive.
SpanStart(i) ==
    IF call.impl = "walk_folds" THEN call.folds[i][1]
    ELSE call.folds[i].start + 1
SpanEnd(i) ==
    IF call.impl = "walk_folds" THEN call.folds[i][2]
    ELSE call.folds[i].end + 1

\* A discovery pass of walk_folds (cursor.py) or walk_over_folds (0.3.0) that
\* no host error cut short.
WalkDone ==
    call.impl \in {"walk_folds", "sort_folds"} /\ call.exc # "vim.error"

\* C11: a next-fold motion that fails leaves the cursor on the last line of
\* the span just recorded, and discovery then stops: no recorded span starts
\* on the last line of the span recorded before it.
C11_FailedMotionEndsDiscovery ==
    WalkDone
    => \A i \in 1..(NumFolds - 1) : SpanStart(i + 1) # SpanEnd(i) - 1

\* C12: the spans of one discovery pass are non-empty, lie one below the
\* other in the order recorded (each ends at or above the start of the next)
\* and their start lines have one fold level, which is not 0.
C12_DisjointOrderedSameLevel ==
    WalkDone
    => /\ \A i \in 1..NumFolds : SpanStart(i) < SpanEnd(i)
       /\ \A i \in 1..(NumFolds - 1) :
             /\ SpanStart(i) < SpanStart(i + 1)
             /\ SpanEnd(i) <= SpanStart(i + 1)
       /\ \A i \in 1..NumFolds :
             /\ FoldLevel(call.buffer, SpanStart(i)) # 0
             /\ FoldLevel(call.buffer, SpanStart(i))
                  = FoldLevel(call.buffer, SpanStart(1))

\* The unfolded lines between the start of the i-th span and the start of
\* the next.
UnfoldedBetween(i) ==
    {k \in (SpanStart(i) + 1)..(SpanStart(i + 1) - 1) :
        FoldLevel(call.buffer, k) = 0}

\* C13, as stated: every span ends where the next one starts.
C13_Contiguous ==
    SortCall
    => \A i \in 1..(NumFolds - 1) : SpanEnd(i) = SpanStart(i + 1)

\* C13: no span holds an unfolded line, so a span ends at or above every
\* unfolded line that separates its fold from the next one, and above the
\* start of the next span: the separating lines are in no span.
C13_SpansLeaveOutUnfoldedLines ==
    SortCall
    => /\ \A i \in 1..NumFolds : \A k \in SpanStart(i)..(SpanEnd(i) - 1) :
             FoldLevel(call.buffer, k) > 0
       /\ \A i \in 1..(NumFolds - 1) : \A k \in UnfoldedBetween(i) :
             SpanEnd(i) <= k /\ SpanEnd(i) < SpanStart(i + 1)

\* Two folds with an unfolded line between them were recorded.
C13_Witness ==
    /\ SortCall /\ Completed /\ NumFolds >= 2
    /\ UnfoldedBetween(1) # {}
    /\ SpanEnd(1) < SpanStart(2)

\* The line numbers of the selection: vim.current.range.start and .end are
\* the 0-based indices of its first and last line.
SelectionLines == (range.start + 1)..(range.end + 1)

\* C14: every recorded span starts on a line of the selection, and when the
\* selection's first line is the first line of a top-level fold, that fold
\* is recorded as the first span instead of being rejected.
C14_InSelectionTest ==
    WalkDone
    => /\ \A i \in 1..NumFolds : SpanStart(i) \in SelectionLines
       /\ (\E f \in HostFolds(call.buffer) :
               f.depth = 1 /\ f.top = range.start + 1)
          => (NumFolds >= 1 /\ SpanStart(1) = range.start + 1)

\* A discovery pass of any of the three span-recording generations.
DiscoveryDone ==
    /\ call.impl \in {"walk_folds", "sort_folds", "SortFolds_sort_folds"}
    /\ call.exc # "vim.error"

\* The probe line: the cursor line on entry.
Probe == call.cursor.line

\* C15: when the probe line is inside a fold, the first recorded span is a
\* whole fold that holds the probe line: it starts on the fold's first line
\* and ends below its last line.
C15_FirstSpanIsWholeFold ==
    (DiscoveryDone /\ NumFolds >= 1 /\ FoldLevel(call.buffer, Probe) > 0)
    => \E f \in HostFolds(call.buffer) :
          /\ f.top <= Probe /\ Probe <= f.bot
          /\ SpanStart(1) = f.top
          /\ SpanEnd(1) = f.bot + 1

\* One call of move_to_first_fold (0.3.0, cursor.py) or of
\* move_to_first_fold_of_range (0.1.1).
FirstFoldCall ==
    call.impl \in {"move_to_first_fold", "cursor_move_to_first_fold",
                   "move_to_first_fold_of_range"}

\* C16: when move_to_first_fold returns a line number, the cursor is on that
\* line.
C16_CursorOnReturnedLine ==
    (FirstFoldCall /\ call.ret # None) => cursor.line = call.ret

\* ---------------------------------------------------- claims on rewriting
\* The buffer had the spans been rewritten from the first to the last.
RewrittenForward ==
    SortFolds_swap_forward(Host(call.buffer, {}, call.cursor, 0), call.buffer,
                           call.folds, call.sorted, NumFolds).buf

SameLengthSpans == \A i \in 1..NumFolds : SpanLen(i) = SpanLen(1)

\* C17, as stated: rewriting the spans from first to last gives the buffer
\* that rewriting them from last to first gave.
C17_OrderIrrelevant ==
    (SortCall /\ Completed) => RewrittenForward = buffer

\* C17: when the discovered spans all have the same length, rewriting them
\* from first to last gives the buffer that rewriting them from last to
\* first gave.
C17_OrderIrrelevantForEqualLengths ==
    (SortCall /\ Completed /\ SameLengthSpans) => RewrittenForward = buffer

\* Two folds of the same length changed places.
C17_Witness ==
    /\ SortCall /\ Completed /\ NumFolds >= 2 /\ SameLengthSpans
    /\ buffer # call.buffer
    /\ RewrittenForward = buffer

\* ------------------------------------------------- claims on errors
\* A span constructor was called on its own.
SpanConstructorCall == call.impl \in {"Fold", "SortFolds_Fold", "VimFold"}

\* C18: no buffer line is written before discovery has completed: an
\* invocation that an error ends during discovery leaves the buffer as it
\* was, and constructing a span whose start is greater than its end is such
\* an error (the constructor raises and makes no span).
C18_DiscoveryErrorLeavesBuffer ==
    /\ (AnySortCall /\ call.stage = "discovery") => buffer = call.buffer
    /\ (SpanConstructorCall /\ call.args[1] > call.args[2])
          => /\ call.exc # "none"
             /\ call.folds = << >>
             /\ buffer = call.buffer

\* ------------------------------------------------ claims on termination
\* The folds of the buffer whose first line is a line of the selection.
FoldsStartingInSelection ==
    {f \in HostFolds(call.buffer) : f.top \in SelectionLines}

\* C19: discovery ends with a result; it scans forward only (each recorded
\* span starts strictly below the one recorded before it), and it records
\* no more spans than there are folds whose first line is in the selection.
C19_ForwardScanBoundedByFolds ==
    WalkDone
    => /\ \A i \in 1..(NumFolds - 1) : SpanStart(i) < SpanStart(i + 1)
       /\ NumFolds <= Cardinality(FoldsStartingInSelection)

\* ------------------------------------------------- claims on indexing
\* fold[i] was evaluated on a fold that its constructor accepted.
IndexedFold == call.impl = "VimFold_getitem" /\ call.stage # "init"

\* C20: fold[i] indexes like the list slice buffer[start:stop]: for
\* -len(fold) <= i < len(fold), _clamp returns the buffer index of element i
\* of the slice (start + i for i >= 0, stop + i for i < 0), which lies in
\* [start, stop); for every other i, IndexError is raised.
C20_IndexLikeListSlice ==
    IndexedFold
    => LET start == call.args[1] - 1
           stop == call.args[2] - 1
           i == call.args[3]
           len == stop - start
       IN  IF -len <= i /\ i < len
           THEN /\ call.stage \in {"buffer", "returned"}
                /\ call.ret = (IF i >= 0 THEN start + i ELSE stop + i)
                /\ start <= call.ret /\ call.ret < stop
           ELSE call.exc = "IndexError"

\* ------------------------------------------- claims on the pieces (pythonx)
\* get_folds ran to its end, on its own or inside sort_folds.
PiecesDone ==
    /\ call.impl \in {"get_folds", "pythonx_sort_folds"}
    /\ call.stage # "discovery"

\* The pieces are not empty, each starts where the one before it ends, the
\* first starts on the selection's first line and the last ends below its
\* last line.
PiecesTileSelection ==
    /\ NumFolds >= 1
    /\ \A i \in 1..NumFolds : call.folds[i].start < call.folds[i].end
    /\ call.folds[1].start = range.start
    /\ \A i \in 1..(NumFolds - 1) : call.folds[i].end = call.folds[i + 1].start
    /\ call.folds[NumFolds].end = range.end + 1

\* The lines of the selection as a bag.
LinesBag(buf) ==
    LET sel == {k \in 1..Len(buf) : k - 1 \in range.start..range.end}
        texts == {buf[k] : k \in sel}
    IN  [t \in texts |-> Cardinality({k \in sel : buf[k] = t})]

\* C21: the pieces that get_folds (pythonx) yields are non-empty, contiguous
\* and cover the selection from its first to its last line; get_folds ends
\* with the cursor where it was; sort_folds, which replaces the selection by
\* the sorted pieces, keeps the number of lines, the lines of the selection
\* as a bag and every line outside the selection.
C21_PiecesTileSelection ==
    PiecesDone
    => /\ PiecesTileSelection
       /\ call.impl = "get_folds" => cursor = call.cursor
       /\ (call.impl = "pythonx_sort_folds" /\ Completed)
          => /\ Len(buffer) = Len(call.buffer)
             /\ LinesBag(buffer) = LinesBag(call.buffer)
             /\ \A k \in 1..Len(buffer) :
                   k - 1 \notin range.start..range.end
                   => buffer[k] = call.buffer[k]

=============================================================================
